---- MODULE Spec2Model ----
(***************************************************************************)
(* The product catalogue of E_COMMERCE.js: one collection, db.products,    *)
(* seeded by insertMany, read by find / aggregate and changed by the four  *)
(* updateOne commands of section 4 and by the Mongoose helpers addVariant  *)
(* and updateVariantStock of section 5.                                    *)
(*                                                                         *)
(* The commands are modelled with the semantics the database and the       *)
(* Mongoose layer give them:                                               *)
(*   - a collection scan visits documents in insertion order;              *)
(*   - updateOne changes the first document the filter matches;            *)
(*   - "variants.$" is the first array element the filter matched;         *)
(*   - $group emits its groups in no defined order, and $sort leaves the   *)
(*     order of documents with equal keys undefined;                       *)
(*   - Mongoose casts filters and updates through the schema (a variant    *)
(*     _id becomes an ObjectId, a pushed variant without _id gets one),    *)
(*     does not run validators on findOneAndUpdate / findByIdAndUpdate     *)
(*     (no runValidators option is passed), and with timestamps: true      *)
(*     sets updatedAt on every update it applies.                          *)
(***************************************************************************)
EXTENDS Integers, Sequences, FiniteSets, TLC

VARIABLES store, nextId, now, nops, lastOp, before, result

vars == <<store, nextId, now, nops, lastOp, before, result>>

\* Number of commands issued in one run of the model.
MaxOps == 3

----------------------------------------------------------------------------
\* Identities.  A product _id is an ObjectId, modelled by the number of the
\* counter that generated it.  A variant _id carries its BSON type: the
\* shell literals are strings, the ones Mongoose makes are ObjectIds.  The
\* 24-digit literals are named by the number of their last byte.

id_af == 175
id_b1 == 177
id_b2 == 178
id_b3 == 179
id_b4 == 180
id_c1 == 193
id_c2 == 194
id_d1 == 209
id_d2 == 210

StringId(n) == [t |-> "String", v |-> n]

ObjectId(n) == [t |-> "ObjectId", v |-> n]

\* Mongoose's cast of a value to the schema type ObjectId: a 24-digit hex
\* string becomes the ObjectId with those digits, an ObjectId is kept.
CastObjectId(x) == [t |-> "ObjectId", v |-> x.v]

Variant(id, color, size, stock) ==
    [_id |-> id, color |-> color, size |-> size, stock |-> stock]

\* The literal of insertMany (the documents as written, before _id is added).
SampleProducts ==
    << [name |-> "Winter Jacket", price |-> 200, category |-> "Apparel",
        description |-> "Warm and stylish winter jacket for cold weather",
        variants |-> << Variant(StringId(id_b2), "Black", "S", 8),
                        Variant(StringId(id_b3), "Gray", "M", 12) >>],
       [name |-> "Smartphone", price |-> 699, category |-> "Electronics",
        description |-> "Latest model smartphone with advanced features",
        variants |-> << >>],
       [name |-> "Running Shoes", price |-> 120, category |-> "Footwear",
        description |-> "Comfortable running shoes for daily exercise",
        variants |-> << Variant(StringId(id_af), "Red", "M", 10),
                        Variant(StringId(id_b1), "Blue", "L", 5) >>],
       [name |-> "Laptop", price |-> 1299, category |-> "Electronics",
        description |-> "High-performance laptop for work and gaming",
        variants |-> << Variant(StringId(id_c1), "Silver", "15-inch", 3),
                        Variant(StringId(id_c2), "Space Gray", "13-inch", 7) >>],
       [name |-> "Yoga Mat", price |-> 45, category |-> "Fitness",
        description |-> "Non-slip yoga mat for comfortable practice",
        variants |-> << Variant(StringId(id_d1), "Purple", "Standard", 20),
                        Variant(StringId(id_d2), "Green", "Extra Thick", 15) >>] >>

\* A stored document: the input plus its _id; updatedAt is <<>> until a
\* Mongoose update writes it, then <<t>>.
Stored(doc, id) ==
    [_id |-> id, name |-> doc.name, price |-> doc.price,
     category |-> doc.category, description |-> doc.description,
     variants |-> doc.variants, updatedAt |-> << >>]

----------------------------------------------------------------------------
\* Filters.  A filter is a sequence of clauses, all of which must hold.

Clause(field, op, value) == [field |-> field, op |-> op, value |-> value]

\* The values a dotted path reaches in a document: one for a top-level
\* field, one per array element for a path through variants.
FieldValues(p, field) ==
    CASE field = "_id"            -> {p._id}
      [] field = "name"           -> {p.name}
      [] field = "category"       -> {p.category}
      [] field = "price"          -> {p.price}
      [] field = "variants._id"   -> {p.variants[i]._id : i \in DOMAIN p.variants}
      [] field = "variants.color" -> {p.variants[i].color : i \in DOMAIN p.variants}
      [] field = "variants.size"  -> {p.variants[i].size : i \in DOMAIN p.variants}
      [] field = "variants.stock" -> {p.variants[i].stock : i \in DOMAIN p.variants}

Compare(x, c) == IF c.op = "$lt" THEN x < c.value ELSE x = c.value

\* Faulty form of ClauseHolds: every reached value must compare.
ClauseHoldsAll(p, c) == \A x \in FieldValues(p, c.field) : Compare(x, c)

ClauseHolds(p, c) == \E x \in FieldValues(p, c.field) : Compare(x, c)

Matches(p, filter) == \A k \in DOMAIN filter : ClauseHolds(p, filter[k])

\* The cursor of find: the documents in scan order, the matching ones kept.
RECURSIVE Find(_, _)
Find(s, filter) ==
    IF s = << >> THEN << >>
    ELSE IF Matches(Head(s), filter)
         THEN <<Head(s)>> \o Find(Tail(s), filter)
         ELSE Find(Tail(s), filter)

\* Position of the first document matching the filter, 0 when none does.
FirstMatch(s, filter) ==
    IF \E i \in DOMAIN s : Matches(s[i], filter)
    THEN CHOOSE i \in DOMAIN s :
            /\ Matches(s[i], filter)
            /\ \A j \in 1..(i - 1) : ~Matches(s[j], filter)
    ELSE 0

\* Faulty form of Targets: every matching document (updateMany).
AllTargets(s, filter) == {i \in DOMAIN s : Matches(s[i], filter)}

\* Faulty form of Targets: falls back on the first document when none matches.
FirstOrFallbackTargets(s, filter) ==
    IF s = << >> THEN {}
    ELSE IF FirstMatch(s, filter) = 0 THEN {1} ELSE {FirstMatch(s, filter)}

\* The documents one updateOne / findOneAndUpdate may change.
Targets(s, filter) ==
    IF FirstMatch(s, filter) = 0 THEN {} ELSE {FirstMatch(s, filter)}

----------------------------------------------------------------------------
\* Update operators, applied to one document.

\* $set: { price: v }
SetPrice(p, price) == [p EXCEPT !.price = price]

\* $push: { variants: v }
Push(p, v) == [p EXCEPT !.variants = Append(@, v)]

\* The element "variants.$" stands for: the first one whose _id is vid
\* (0 when the array holds none).
PositionalIndex(p, vid) ==
    IF \E i \in DOMAIN p.variants : p.variants[i]._id = vid
    THEN CHOOSE i \in DOMAIN p.variants :
            /\ p.variants[i]._id = vid
            /\ \A j \in 1..(i - 1) : p.variants[j]._id # vid
    ELSE 0

\* Faulty form of SetStockAt: every element of the array ("variants.$[]").
SetStockAll(p, vid, stock) ==
    [p EXCEPT !.variants = [i \in DOMAIN @ |-> [@[i] EXCEPT !.stock = stock]]]

\* $set: { "variants.$.stock": v }.  Without a matched element the server
\* refuses the update and the document stays as it is.
SetStockAt(p, vid, stock) ==
    IF PositionalIndex(p, vid) = 0 THEN p
    ELSE [p EXCEPT !.variants[PositionalIndex(p, vid)].stock = stock]

\* Faulty form of PullAll: only the first element with that _id goes.
RECURSIVE PullFirst(_, _)
PullFirst(vs, vid) ==
    IF vs = << >> THEN << >>
    ELSE IF Head(vs)._id = vid THEN Tail(vs)
         ELSE <<Head(vs)>> \o PullFirst(Tail(vs), vid)

\* $pull: { variants: { _id: vid } }: every element with that _id goes.
RECURSIVE PullAll(_, _)
PullAll(vs, vid) ==
    IF vs = << >> THEN << >>
    ELSE IF Head(vs)._id = vid THEN PullAll(Tail(vs), vid)
         ELSE <<Head(vs)>> \o PullAll(Tail(vs), vid)

Pull(p, vid) == [p EXCEPT !.variants = PullAll(@, vid)]

\* timestamps: true, on an update Mongoose applies at time t.
Touch(p, t) == [p EXCEPT !.updatedAt = <<t>>]

\* Mongoose's cast of the pushed variant through variantSchema: the _id
\* given is cast to ObjectId, a missing one is generated; no validator runs.
CastVariant(data, fresh) ==
    [_id   |-> IF data._id = << >> THEN ObjectId(fresh)
               ELSE CastObjectId(data._id[1]),
     color |-> data.color, size |-> data.size, stock |-> data.stock]

\* What the server reports for an update that took s to s2.
WriteResult(s, s2, targets) ==
    [matched  |-> Cardinality(targets),
     modified |-> Cardinality({i \in targets : s2[i] # s[i]})]

\* Faulty form of FreshIds: the same _ids on every call.
ReusedIds(n, k) == [i \in 1..k |-> i]

\* The _ids the client generates for k documents: fresh, in input order.
FreshIds(n, k) == [i \in 1..k |-> n + i - 1]

----------------------------------------------------------------------------
\* Aggregations.

RECURSIVE SumSeq(_)
SumSeq(xs) == IF xs = << >> THEN 0 ELSE Head(xs) + SumSeq(Tail(xs))

Stocks(p) == [i \in DOMAIN p.variants |-> p.variants[i].stock]

\* Faulty form of ProjectTotals: the two computed fields exchanged.
ProjectTotalsSwapped(p) ==
    [_id |-> p._id, name |-> p.name, price |-> p.price, category |-> p.category,
     totalStock   |-> Len(p.variants),
     variantCount |-> SumSeq(Stocks(p))]

\* $project of 3.10 for one document (_id is kept by default).
ProjectTotals(p) ==
    [_id |-> p._id, name |-> p.name, price |-> p.price, category |-> p.category,
     totalStock   |-> SumSeq(Stocks(p)),
     variantCount |-> Len(p.variants)]

TotalStockPerProduct(s) == [i \in DOMAIN s |-> ProjectTotals(s[i])]

\* $group: { _id: "$category", count: { $sum: 1 } }: the set of groups.
Groups(s) ==
    {[_id |-> c, count |-> Cardinality({i \in DOMAIN s : s[i].category = c})] :
        c \in {s[i].category : i \in DOMAIN s}}

\* Faulty form of SortedDescending: { count: 1 }.
SortedAscending(r) == \A i, j \in DOMAIN r : i < j => r[i].count <= r[j].count

\* $sort: { count: -1 }
SortedDescending(r) == \A i, j \in DOMAIN r : i < j => r[i].count >= r[j].count

\* Every output the pipeline of 3.9 can produce: the groups, each once, in
\* an order the sort allows.
CountByCategoryResults(s) ==
    {r \in [1..Cardinality(Groups(s)) -> Groups(s)] :
        /\ \A i, j \in DOMAIN r : i # j => r[i] # r[j]
        /\ SortedDescending(r)}

----------------------------------------------------------------------------
\* The inputs the commands are issued with.  Each set holds the arguments of
\* the script's own call and a few others that reach the remaining cases
\* (no matching document, no matching variant, a negative stock, an _id
\* already in use).

PriceNames == {"Smartphone", "Tablet"}

Prices == {649}

PushNames == {"Winter Jacket", "Tablet"}

PushVariants ==
    {Variant(StringId(id_b4), "Navy Blue", "L", 6),
     Variant(StringId(id_b2), "Navy Blue", "L", -1)}

SetNames == {"Running Shoes", "Winter Jacket"}

SetIds == {StringId(id_b1), StringId(id_b2), StringId(id_c2)}

NewStocks == {8, -1}

PullNames == {"Laptop", "Winter Jacket"}

PullIds == {StringId(id_c2), StringId(id_b2)}

ProductIds == {1, 6}

VariantData ==
    {[_id |-> << >>, color |-> "Olive", size |-> "XL", stock |-> 4],
     [_id |-> <<StringId(id_b4)>>, color |-> "Navy Blue", size |-> "L",
      stock |-> -3]}

\* The variant ids a caller of updateVariantStock can hold: a literal of
\* the script, or an ObjectId a document returned to it.
KnownVariantIds(s) ==
    {StringId(id_b2)} \cup
    {x \in UNION {{s[i].variants[j]._id : j \in DOMAIN s[i].variants} :
                    i \in DOMAIN s} : x.t = "ObjectId"}

FindFilters ==
    {<< >>,
     <<Clause("category", "$eq", "Electronics")>>,
     <<Clause("category", "$eq", "Apparel")>>,
     <<Clause("price", "$lt", 150)>>,
     <<Clause("variants.color", "$eq", "Blue")>>,
     <<Clause("variants.size", "$eq", "M")>>,
     <<Clause("variants.stock", "$lt", 10)>>,
     <<Clause("category", "$eq", "Electronics"),
       Clause("variants.stock", "$lt", 10)>>}

----------------------------------------------------------------------------
\* The state and the commands.

Init ==
    /\ store = << >>
    /\ nextId = 1
    /\ now = 0
    /\ nops = 0
    /\ lastOp = [op |-> "none"]
    /\ before = << >>
    /\ result = [matched |-> 0, modified |-> 0]

\* A command that writes: s2 is the collection it leaves, r what it returns.
Write(op, s2, r) ==
    /\ nops < MaxOps
    /\ nops' = nops + 1
    /\ before' = store
    /\ store' = s2
    /\ lastOp' = op
    /\ result' = r

\* A command that reads: r is what it returns.
Read(op, r) ==
    /\ before' = store
    /\ lastOp' = op
    /\ result' = r
    /\ UNCHANGED <<store, nextId, now, nops>>

\* The collection after the documents at the positions ts are replaced by
\* their updated forms upd[i].
Apply(s, ts, upd) == [i \in DOMAIN s |-> IF i \in ts THEN upd[i] ELSE s[i]]

\* db.products.drop()
Drop ==
    /\ Write([op |-> "drop"], << >>, [matched |-> 0, modified |-> 0])
    /\ UNCHANGED <<nextId, now>>

\* db.products.insertMany([...])
InsertMany ==
    LET docs == SampleProducts
        ids  == FreshIds(nextId, Len(docs))
        new  == [i \in DOMAIN docs |-> Stored(docs[i], ids[i])]
    IN  /\ Write([op |-> "insertMany"], store \o new, new)
        /\ nextId' = nextId + Len(docs)
        /\ UNCHANGED now

\* 4.1  updateOne({ name }, { $set: { price } })
UpdateOnePrice(name, price) ==
    LET filter == <<Clause("name", "$eq", name)>>
        ts == Targets(store, filter)
        s2 == Apply(store, ts, [i \in DOMAIN store |-> SetPrice(store[i], price)])
    IN  /\ Write([op |-> "updateOnePrice", filter |-> filter, price |-> price],
                 s2, WriteResult(store, s2, ts))
        /\ UNCHANGED <<nextId, now>>

\* 4.2  updateOne({ name }, { $push: { variants: v } })
AppendVariant(name, v) ==
    LET filter == <<Clause("name", "$eq", name)>>
        ts == Targets(store, filter)
        s2 == Apply(store, ts, [i \in DOMAIN store |-> Push(store[i], v)])
    IN  /\ Write([op |-> "appendVariant", filter |-> filter, variant |-> v,
                  mongoose |-> FALSE],
                 s2, WriteResult(store, s2, ts))
        /\ UNCHANGED <<nextId, now>>

\* 4.3  updateOne({ name, "variants._id": vid }, { $set: { "variants.$.stock" } })
SetVariantStock(name, vid, stock) ==
    LET filter == <<Clause("name", "$eq", name),
                    Clause("variants._id", "$eq", vid)>>
        ts == Targets(store, filter)
        s2 == Apply(store, ts,
                    [i \in DOMAIN store |-> SetStockAt(store[i], vid, stock)])
    IN  /\ Write([op |-> "setVariantStock", filter |-> filter, vid |-> vid,
                  stock |-> stock, mongoose |-> FALSE],
                 s2, WriteResult(store, s2, ts))
        /\ UNCHANGED <<nextId, now>>

\* 4.4  updateOne({ name }, { $pull: { variants: { _id: vid } } })
RemoveVariant(name, vid) ==
    LET filter == <<Clause("name", "$eq", name)>>
        ts == Targets(store, filter)
        s2 == Apply(store, ts, [i \in DOMAIN store |-> Pull(store[i], vid)])
    IN  /\ Write([op |-> "removeVariant", filter |-> filter, vid |-> vid],
                 s2, WriteResult(store, s2, ts))
        /\ UNCHANGED <<nextId, now>>

\* Product.findByIdAndUpdate(productId, { $push: { variants: data } })
addVariant(productId, data, tick) ==
    LET filter == <<Clause("_id", "$eq", productId)>>
        v  == CastVariant(data, nextId)
        ts == Targets(store, filter)
        s2 == Apply(store, ts,
                    [i \in DOMAIN store |-> Touch(Push(store[i], v), now + tick)])
    IN  /\ Write([op |-> "appendVariant", filter |-> filter, variant |-> v,
                  mongoose |-> TRUE],
                 s2, WriteResult(store, s2, ts))
        /\ nextId' = IF data._id = << >> THEN nextId + 1 ELSE nextId
        /\ now' = now + tick

\* Product.findOneAndUpdate({ _id, 'variants._id' }, { $set: { 'variants.$.stock' } })
updateVariantStock(productId, variantId, newStock, tick) ==
    LET vid == CastObjectId(variantId)
        filter == <<Clause("_id", "$eq", productId),
                    Clause("variants._id", "$eq", vid)>>
        ts == Targets(store, filter)
        s2 == Apply(store, ts,
                    [i \in DOMAIN store |->
                        Touch(SetStockAt(store[i], vid, newStock), now + tick)])
    IN  /\ Write([op |-> "setVariantStock", filter |-> filter, vid |-> vid,
                  stock |-> newStock, mongoose |-> TRUE],
                 s2, WriteResult(store, s2, ts))
        /\ now' = now + tick
        /\ UNCHANGED nextId

\* 3.1 - 3.7  db.products.find(filter)
FindProducts(filter) ==
    Read([op |-> "find", filter |-> filter], Find(store, filter))

\* 3.9  aggregate([{ $group }, { $sort }])
CountByCategory ==
    \E r \in CountByCategoryResults(store) :
        Read([op |-> "countByCategory"], r)

\* 3.10  aggregate([{ $project }])
TotalStock ==
    Read([op |-> "totalStockPerProduct"], TotalStockPerProduct(store))

Next ==
    \/ Drop
    \/ InsertMany
    \/ \E n \in PriceNames, x \in Prices : UpdateOnePrice(n, x)
    \/ \E n \in PushNames, v \in PushVariants : AppendVariant(n, v)
    \/ \E n \in SetNames, i \in SetIds, x \in NewStocks : SetVariantStock(n, i, x)
    \/ \E n \in PullNames, i \in PullIds : RemoveVariant(n, i)
    \/ \E i \in ProductIds, d \in VariantData, k \in {0, 1} : addVariant(i, d, k)
    \/ \E i \in ProductIds, v \in KnownVariantIds(store), x \in NewStocks,
          k \in {0, 1} : updateVariantStock(i, v, x, k)
    \/ \E f \in FindFilters : FindProducts(f)
    \/ CountByCategory
    \/ TotalStock

Spec == Init /\ [][Next]_vars

----------------------------------------------------------------------------
\* Vocabulary of the properties.  They speak of the last command issued
\* (lastOp), the collection it found (before), the collection it left
\* (store) and what it returned (result).

\* The fields insertMany was given for a stored document.
Doc(p) ==
    [name |-> p.name, price |-> p.price, category |-> p.category,
     description |-> p.description, variants |-> p.variants]

\* The collection holds the five sample documents as inserted, no more.
IsSample(s) ==
    /\ Len(s) = Len(SampleProducts)
    /\ \A i \in DOMAIN s : Doc(s[i]) = SampleProducts[i] /\ s[i].updatedAt = << >>

Names(r) == [i \in DOMAIN r |-> r[i].name]

IsUpdate ==
    lastOp.op \in {"updateOnePrice", "appendVariant", "setVariantStock",
                   "removeVariant"}

\* i is the first document of s, in insertion order, that the filter selects.
IsFirstMatch(s, i, filter) ==
    /\ i \in DOMAIN s
    /\ Matches(s[i], filter)
    /\ \A j \in 1..(i - 1) : ~Matches(s[j], filter)

Changed == {i \in DOMAIN before : store[i] # before[i]}

\* p with the stock of its k-th variant set to x.
WithStock(p, k, x) == [p EXCEPT !.variants[k].stock = x]

\* p2 is p but for updatedAt.
SameButUpdatedAt(p2, p) == [p2 EXCEPT !.updatedAt = p.updatedAt] = p

----------------------------------------------------------------------------
\* C1 as stated: setVariantStock changes the stock of one variant, the one
\* with the given identity in the first product the filter selects, and
\* nothing else: not a sibling variant, not another field of the product,
\* not another product.
C1_OnlyTheVariantChanges ==
    lastOp.op = "setVariantStock" =>
        /\ DOMAIN store = DOMAIN before
        /\ \A i \in DOMAIN before :
              IF IsFirstMatch(before, i, lastOp.filter)
              THEN \E k \in DOMAIN before[i].variants :
                      /\ before[i].variants[k]._id = lastOp.vid
                      /\ store[i] = WithStock(before[i], k, lastOp.stock)
              ELSE store[i] = before[i]

\* C1 as amended: the same, except that the Mongoose form updateVariantStock
\* (schema option timestamps: true) also writes updatedAt of the product it
\* updates.  On the sample data, Running Shoes ...b1 set to 8 leaves ...af
\* at stock 10.
C1_OnlyTheVariantChangesButUpdatedAt ==
    lastOp.op = "setVariantStock" =>
        /\ DOMAIN store = DOMAIN before
        /\ \A i \in DOMAIN before :
              IF IsFirstMatch(before, i, lastOp.filter)
              THEN \E k \in DOMAIN before[i].variants :
                      /\ before[i].variants[k]._id = lastOp.vid
                      /\ IF lastOp.mongoose
                         THEN SameButUpdatedAt(store[i],
                                  WithStock(before[i], k, lastOp.stock))
                         ELSE store[i] = WithStock(before[i], k, lastOp.stock)
              ELSE store[i] = before[i]
        /\ (/\ IsSample(before)
            /\ lastOp.filter = <<Clause("name", "$eq", "Running Shoes"),
                                 Clause("variants._id", "$eq", StringId(id_b1))>>
            /\ lastOp.stock = 8)
           => /\ store[3].variants[1] = Variant(StringId(id_af), "Red", "M", 10)
              /\ store[3].variants[2] = Variant(StringId(id_b1), "Blue", "L", 8)

\* C1 witness: the script's own call on the sample data has run.
C1_Witness ==
    /\ lastOp.op = "setVariantStock"
    /\ IsSample(before)
    /\ lastOp.filter = <<Clause("name", "$eq", "Running Shoes"),
                         Clause("variants._id", "$eq", StringId(id_b1))>>
    /\ lastOp.stock = 8
    /\ Changed = {3}

\* C2: every variant of every product has stock >= 0 (a negative stock is
\* rejected by appendVariant and by setVariantStock).
C2_StockNeverNegative ==
    \A i \in DOMAIN store : \A k \in DOMAIN store[i].variants :
        store[i].variants[k].stock >= 0

\* The variants of vs whose identity is not vid, in their order.
Without(vs, vid) == SelectSeq(vs, LAMBDA v : v._id # vid)

\* C3: removeVariant takes out of the first matching product the variants
\* with the given identity and keeps the others in their order; the other
\* products are unchanged.  On the sample data, removing ...c2 from Laptop
\* leaves the single variant ...c1 (Silver, 15-inch, stock 3).
C3_RemoveKeepsTheRest ==
    lastOp.op = "removeVariant" =>
        /\ DOMAIN store = DOMAIN before
        /\ \A i \in DOMAIN before :
              IF IsFirstMatch(before, i, lastOp.filter)
              THEN store[i] = [before[i] EXCEPT
                                  !.variants = Without(@, lastOp.vid)]
              ELSE store[i] = before[i]
        /\ (/\ IsSample(before)
            /\ lastOp.filter = <<Clause("name", "$eq", "Laptop")>>
            /\ lastOp.vid = StringId(id_c2))
           => store[4].variants
                 = <<Variant(StringId(id_c1), "Silver", "15-inch", 3)>>

\* C3 witness: a removal that took a variant out and left one behind.
C3_Witness ==
    /\ lastOp.op = "removeVariant"
    /\ IsSample(before)
    /\ lastOp.vid = StringId(id_c2)
    /\ Changed = {4}
    /\ Len(store[4].variants) = 1

\* Number of products of s in category c, and where c first appears.
CountOf(s, c) == Cardinality({i \in DOMAIN s : s[i].category = c})

FirstPos(s, c) == CHOOSE i \in DOMAIN s :
    s[i].category = c /\ \A j \in 1..(i - 1) : s[j].category # c

\* r has one entry per distinct category of s, with its number of products.
OneEntryPerCategory(r, s) ==
    /\ {r[i]._id : i \in DOMAIN r} = {s[i].category : i \in DOMAIN s}
    /\ \A i, j \in DOMAIN r : r[i]._id = r[j]._id => i = j
    /\ \A i \in DOMAIN r : r[i].count = CountOf(s, r[i]._id)

\* C4 as stated: countByCategory returns one entry per category with its
\* count, by count descending, equal counts in order of first appearance;
\* on the sample set Electronics:2, Apparel:1, Footwear:1, Fitness:1.
C4_TiesInFirstAppearanceOrder ==
    lastOp.op = "countByCategory" =>
        /\ OneEntryPerCategory(result, before)
        /\ \A i, j \in DOMAIN result : i < j =>
              \/ result[i].count > result[j].count
              \/ /\ result[i].count = result[j].count
                 /\ FirstPos(before, result[i]._id) < FirstPos(before, result[j]._id)
        /\ IsSample(before) =>
              result = << [_id |-> "Electronics", count |-> 2],
                          [_id |-> "Apparel", count |-> 1],
                          [_id |-> "Footwear", count |-> 1],
                          [_id |-> "Fitness", count |-> 1] >>

\* C4 as amended: one entry per category with its count, by count
\* descending; the order among equal counts is not determined.  On the
\* sample set Electronics:2 comes first and Apparel:1, Footwear:1 and
\* Fitness:1 follow in some order.
C4_CountsDescending ==
    lastOp.op = "countByCategory" =>
        /\ OneEntryPerCategory(result, before)
        /\ \A i \in 1..(Len(result) - 1) : result[i].count >= result[i + 1].count
        /\ IsSample(before) =>
              /\ result[1] = [_id |-> "Electronics", count |-> 2]
              /\ {result[i] : i \in 2..4} = { [_id |-> "Apparel", count |-> 1],
                                             [_id |-> "Footwear", count |-> 1],
                                             [_id |-> "Fitness", count |-> 1] }

\* C4 witness: a count over the sample set whose ties are not in order of
\* first appearance.
C4_Witness ==
    /\ lastOp.op = "countByCategory"
    /\ IsSample(before)
    /\ result[2]._id = "Fitness"

\* C5: an update that selects nothing (no product matches the filter or,
\* for removeVariant, the product selected holds no variant with the given
\* identity) reports no update and leaves the collection as it was.
C5_NoMatchNoChange ==
    IsUpdate =>
        /\ (\A i \in DOMAIN before : ~Matches(before[i], lastOp.filter))
              => store = before /\ result.matched = 0 /\ result.modified = 0
        /\ (/\ lastOp.op = "removeVariant"
            /\ \E i \in DOMAIN before :
                  /\ IsFirstMatch(before, i, lastOp.filter)
                  /\ \A k \in DOMAIN before[i].variants :
                        before[i].variants[k]._id # lastOp.vid)
              => store = before /\ result.modified = 0

\* C5 witness: setVariantStock has run on a collection that holds the named
\* product, for a variant that product does not have.
C5_Witness ==
    /\ lastOp.op = "setVariantStock"
    /\ before # << >>
    /\ \E i \in DOMAIN before : before[i].name = lastOp.filter[1].value
    /\ \A i \in DOMAIN before : ~Matches(before[i], lastOp.filter)
    /\ result.modified = 0

\* What a clause asks of a product: a top-level field is compared itself, a
\* field of variants is satisfied by at least one variant.
Satisfies(p, c) ==
    LET ok(x) == IF c.op = "$lt" THEN x < c.value ELSE x = c.value
    IN  CASE c.field = "category" -> ok(p.category)
          [] c.field = "price" -> ok(p.price)
          [] c.field = "name" -> ok(p.name)
          [] c.field = "variants.color" ->
                \E k \in DOMAIN p.variants : ok(p.variants[k].color)
          [] c.field = "variants.size" ->
                \E k \in DOMAIN p.variants : ok(p.variants[k].size)
          [] c.field = "variants.stock" ->
                \E k \in DOMAIN p.variants : ok(p.variants[k].stock)

SatisfiesAll(p, filter) == \A k \in DOMAIN filter : Satisfies(p, filter[k])

\* C6: find returns the products that satisfy every clause, in insertion
\* order; a product without variants satisfies no clause on a field of
\* variants; the empty filter returns every product.  On the sample set:
\* category = Electronics gives Smartphone, Laptop; price < 150 gives
\* Running Shoes, Yoga Mat; variants.stock < 10 gives Winter Jacket,
\* Running Shoes, Laptop; variants.color = Blue gives Running Shoes.
C6_FindReturnsTheMatches ==
    lastOp.op = "find" =>
        /\ result = SelectSeq(before, LAMBDA p : SatisfiesAll(p, lastOp.filter))
        /\ lastOp.filter = << >> => result = before
        /\ \A i \in DOMAIN result :
              (result[i].variants = << >>) =>
                  \A k \in DOMAIN lastOp.filter :
                      lastOp.filter[k].field \in {"category", "price", "name"}
        /\ IsSample(before) =>
              /\ lastOp.filter = <<Clause("category", "$eq", "Electronics")>>
                    => Names(result) = <<"Smartphone", "Laptop">>
              /\ lastOp.filter = <<Clause("price", "$lt", 150)>>
                    => Names(result) = <<"Running Shoes", "Yoga Mat">>
              /\ lastOp.filter = <<Clause("variants.stock", "$lt", 10)>>
                    => Names(result) = <<"Winter Jacket", "Running Shoes", "Laptop">>
              /\ lastOp.filter = <<Clause("variants.color", "$eq", "Blue")>>
                    => Names(result) = <<"Running Shoes">>

\* C6 witness: the low-stock query on the sample set returned its three
\* products and left out the product without variants.
C6_Witness ==
    /\ lastOp.op = "find"
    /\ IsSample(before)
    /\ lastOp.filter = <<Clause("variants.stock", "$lt", 10)>>
    /\ Len(result) = 3

\* C7: insertMany never deduplicates: it appends the five documents of the
\* literal, in input order, after what the collection held, leaves what it
\* held as it was, and no two products of the collection share an
\* identity; inserting the literal twice gives ten products.
C7_InsertManyAppendsFresh ==
    /\ \A i, j \in DOMAIN store : store[i]._id = store[j]._id => i = j
    /\ lastOp.op = "insertMany" =>
          /\ Len(store) = Len(before) + 5
          /\ \A i \in DOMAIN before : store[i] = before[i]
          /\ \A i \in 1..5 : Doc(store[Len(before) + i]) = SampleProducts[i]
          /\ IsSample(before) =>
                Names(store) = Names(before) \o Names(before)

\* C7 witness: the literal has been inserted into a collection that held
\* the sample set, giving ten products.
C7_Witness ==
    /\ lastOp.op = "insertMany"
    /\ IsSample(before)
    /\ Len(store) = 10

\* C8: within one product no two variants share an identity (appendVariant
\* gives the variant it appends an identity no variant of the product has).
C8_VariantIdsUniquePerProduct ==
    \A i \in DOMAIN store : \A k, m \in DOMAIN store[i].variants :
        store[i].variants[k]._id = store[i].variants[m]._id => k = m

\* The sum of f[1] .. f[n], taken from the last term down.
RECURSIVE SumTo(_, _)
SumTo(f, n) == IF n = 0 THEN 0 ELSE SumTo(f, n - 1) + f[n]

\* C9: totalStockPerProduct returns one record per product, in order, with
\* the product's name, price and category, totalStock the sum of the stock
\* of its variants (0 without variants) and variantCount their number.  On
\* the sample set: 20/2, 0/0, 15/2, 10/2, 35/2.
C9_TotalsPerProduct ==
    lastOp.op = "totalStockPerProduct" =>
        /\ Len(result) = Len(before)
        /\ \A i \in DOMAIN before :
              /\ result[i].name = before[i].name
              /\ result[i].price = before[i].price
              /\ result[i].category = before[i].category
              /\ result[i].variantCount = Len(before[i].variants)
              /\ result[i].totalStock =
                    SumTo([k \in DOMAIN before[i].variants |->
                              before[i].variants[k].stock],
                          Len(before[i].variants))
              /\ before[i].variants = << >> => result[i].totalStock = 0
        /\ IsSample(before) =>
              /\ [i \in DOMAIN result |-> result[i].totalStock]
                    = <<20, 0, 15, 10, 35>>
              /\ [i \in DOMAIN result |-> result[i].variantCount]
                    = <<2, 0, 2, 2, 2>>

\* C9 witness: the totals have been computed over the sample set, which
\* holds a product without variants.
C9_Witness ==
    /\ lastOp.op = "totalStockPerProduct"
    /\ IsSample(before)
    /\ result[2].variantCount = 0
    /\ result[1].totalStock = 20

\* C10: an update changes at most one product, and the one it changes is
\* the first, in insertion order, that its filter selects; every later
\* product the filter selects is left as it was.
C10_AtMostTheFirstMatch ==
    IsUpdate =>
        /\ DOMAIN store = DOMAIN before
        /\ Cardinality(Changed) <= 1
        /\ \A i \in Changed : IsFirstMatch(before, i, lastOp.filter)

\* C10 witness: with the sample set inserted twice, an update by name has
\* changed the first of two products its filter selects.
C10_Witness ==
    /\ IsUpdate
    /\ Len(before) = 10
    /\ \E i, j \in DOMAIN before :
          /\ i < j
          /\ Matches(before[i], lastOp.filter)
          /\ Matches(before[j], lastOp.filter)
          /\ Changed = {i}

====
